---- MODULE Spec2Model ----
(***************************************************************************)
(* Model of libmbp's BootImage facade (src/libmbp/bootimage.cpp): the      *)
(* intermediate record, the setters and resets, the four-way load          *)
(* dispatcher, create/createFile, the error record and operator==.         *)
(*                                                                         *)
(* A uint32_t is a pair <<hi, lo>> of 16-bit halves, so that 32-bit values *)
(* and their wrap-around are exact.  Byte strings (std::string,            *)
(* std::vector<unsigned char>) are sequences of small numbers.             *)
(***************************************************************************)
EXTENDS Integers, Sequences, FiniteSets, TLC

\* ------------------------------------------------------------------ bounds

\* Operations performed in one behaviour.
MaxOps == 2

\* Longest payload blob a caller hands to a setter.
MaxBlobLen == 1

\* ------------------------------------------------------------ 32-bit words

Half == 2 ^ 16

\* The uint32_t holding the natural number n (n below 2^31).
U32(n) == << (n \div Half) % Half, n % Half >>

\* The uint32_t written as two 16-bit hexadecimal halves, 0xHHHHLLLL.
Hex32(hi, lo) == << hi, lo >>

\* The value of a uint32_t whose upper half is below 2^15.
Val(x) == x[1] * Half + x[2]

\* Mutant of Add32: the sum stops at 0xFFFFFFFF instead of wrapping.
Add32Saturating(x, y) ==
    LET lo == x[2] + y[2]
        hi == x[1] + y[1] + (lo \div Half)
    IN  IF hi >= Half THEN << Half - 1, Half - 1 >>
        ELSE << hi, lo % Half >>

\* uint32_t addition: modulo 2^32.
Add32(x, y) ==
    LET lo == x[2] + y[2]
        hi == x[1] + y[1] + (lo \div Half)
    IN  << hi % Half, lo % Half >>

\* --------------------------------------------------------------- constants

\* Sizes of the header's name and command line fields, terminator included.
BootNameSize == 16
BootArgsSize == 512

DefaultBoard == << >>
DefaultCmdline == << >>
DefaultPageSize == U32(2048)
DefaultBase == Hex32(4096, 0)
DefaultKernelOffset == Hex32(0, 32768)
DefaultRamdiskOffset == Hex32(256, 0)
DefaultSecondOffset == Hex32(240, 0)
DefaultTagsOffset == Hex32(0, 256)
DefaultIplAddress == U32(0)
DefaultRpmAddress == U32(0)
DefaultAppsblAddress == U32(0)
DefaultEntrypointAddress == U32(0)

\* BootImage::Type.  "Unknown" stands for any value of the enumeration's
\* underlying type that is none of the four enumerators.
Android == "Android"
Loki == "Loki"
Bump == "Bump"
SonyElf == "SonyElf"
Types == {Android, Loki, Bump, SonyElf}
TypeValues == Types \cup {"Unknown"}

\* ErrorCode values stored in the PatcherError record.
NoError == "NoError"
BootImageParseError == "BootImageParseError"
FileOpenError == "FileOpenError"
FileReadError == "FileReadError"
FileWriteError == "FileWriteError"

\* The two BootImage objects of a run.
Inst == {"a", "b"}

VARIABLES
    obj,    \* obj[o]: the Impl of instance o: i10e, type, sourceType, error
    last,   \* what the last operation did and returned
    hist,   \* hist[o]: what has happened to instance o since construction
    out,    \* the vector the last successful create() filled
    nops    \* operations performed so far

vars == << obj, last, hist, out, nops >>

\* ------------------------------------------------------------ intermediate

ZeroId == [k \in 1..8 |-> U32(0)]

\* BootImageIntermediate as its own definition leaves it: every scalar zero,
\* every string and vector empty.
BootImageIntermediate ==
    [ boardName |-> << >>, cmdline |-> << >>,
      pageSize |-> U32(0),
      kernelAddr |-> U32(0), ramdiskAddr |-> U32(0), secondAddr |-> U32(0),
      tagsAddr |-> U32(0), iplAddr |-> U32(0), rpmAddr |-> U32(0),
      appsblAddr |-> U32(0), hdrEntrypoint |-> U32(0),
      hdrUnused |-> U32(0),
      hdrKernelSize |-> U32(0), hdrRamdiskSize |-> U32(0),
      hdrSecondSize |-> U32(0), hdrDtSize |-> U32(0),
      hdrId |-> ZeroId,
      kernelImage |-> << >>, ramdiskImage |-> << >>, secondImage |-> << >>,
      dtImage |-> << >>, abootImage |-> << >>,
      iplImage |-> << >>, rpmImage |-> << >>, appsblImage |-> << >>,
      sonySinImage |-> << >>, sonySinHdr |-> << >> ]


\* The Impl of a BootImage whose members hold their own defaults: i10e as
\* BootImageIntermediate leaves it, type = Type::Android, error default
\* constructed.  sourceType has no initializer: src is the value it happens
\* to hold.
Impl(src) ==
    [ i10e |-> BootImageIntermediate, type |-> Android,
      sourceType |-> src, error |-> NoError ]

\* ------------------------------------------------- scalar setters / resets

\* The C string held by a buffer: its bytes up to the first NUL.
CStr(bytes) ==
    LET nul == { k \in 1..Len(bytes) : bytes[k] = 0 }
    IN  IF nul = {} THEN bytes
        ELSE SubSeq(bytes, 1, (CHOOSE k \in nul : \A j \in nul : k <= j) - 1)

\* Mutant of setBoardName: the name is cut to the header field on set.
setBoardNameTruncating(s, name) ==
    [s EXCEPT !.i10e.boardName =
        IF Len(name) > BootNameSize - 1
        THEN SubSeq(name, 1, BootNameSize - 1) ELSE name]

boardName(s) == s.i10e.boardName
boardNameC(s) == CStr(s.i10e.boardName)
setBoardName(s, name) == [s EXCEPT !.i10e.boardName = name]
setBoardNameC(s, name) == [s EXCEPT !.i10e.boardName = CStr(name)]
resetBoardName(s) == setBoardName(s, DefaultBoard)

kernelCmdline(s) == s.i10e.cmdline
kernelCmdlineC(s) == CStr(s.i10e.cmdline)
setKernelCmdline(s, cmdline) == [s EXCEPT !.i10e.cmdline = cmdline]
setKernelCmdlineC(s, cmdline) == [s EXCEPT !.i10e.cmdline = CStr(cmdline)]
resetKernelCmdline(s) == setKernelCmdline(s, DefaultCmdline)

setPageSize(s, size) == [s EXCEPT !.i10e.pageSize = size]
\* Mutant of resetPageSize: the reset stores zero instead of the default.
resetPageSizeZero(s) == setPageSize(s, U32(0))

resetPageSize(s) == setPageSize(s, DefaultPageSize)

setKernelAddress(s, address) == [s EXCEPT !.i10e.kernelAddr = address]
resetKernelAddress(s) ==
    setKernelAddress(s, Add32(DefaultBase, DefaultKernelOffset))

setRamdiskAddress(s, address) == [s EXCEPT !.i10e.ramdiskAddr = address]
resetRamdiskAddress(s) ==
    setRamdiskAddress(s, Add32(DefaultBase, DefaultRamdiskOffset))

setSecondBootloaderAddress(s, address) ==
    [s EXCEPT !.i10e.secondAddr = address]
\* Mutant of resetSecondBootloaderAddress: the offset without the base.
resetSecondBootloaderAddressNoBase(s) ==
    setSecondBootloaderAddress(s, DefaultSecondOffset)

resetSecondBootloaderAddress(s) ==
    setSecondBootloaderAddress(s, Add32(DefaultBase, DefaultSecondOffset))

setKernelTagsAddress(s, address) == [s EXCEPT !.i10e.tagsAddr = address]
resetKernelTagsAddress(s) ==
    setKernelTagsAddress(s, Add32(DefaultBase, DefaultTagsOffset))

setIplAddress(s, address) == [s EXCEPT !.i10e.iplAddr = address]
resetIplAddress(s) == setIplAddress(s, DefaultIplAddress)

setRpmAddress(s, address) == [s EXCEPT !.i10e.rpmAddr = address]
resetRpmAddress(s) == setRpmAddress(s, DefaultRpmAddress)

setAppsblAddress(s, address) == [s EXCEPT !.i10e.appsblAddr = address]
resetAppsblAddress(s) == setAppsblAddress(s, DefaultAppsblAddress)

setEntrypointAddress(s, address) ==
    [s EXCEPT !.i10e.hdrEntrypoint = address]
resetEntrypointAddress(s) ==
    setEntrypointAddress(s, DefaultEntrypointAddress)

setAddresses(s, base, kernelOffset, ramdiskOffset, secondBootloaderOffset, kernelTagsOffset) ==
    LET s1 == setKernelAddress(s, Add32(base, kernelOffset))
        s2 == setRamdiskAddress(s1, Add32(base, ramdiskOffset))
        s3 == setSecondBootloaderAddress(s2,
                  Add32(base, secondBootloaderOffset))
    IN  setKernelTagsAddress(s3, Add32(base, kernelTagsOffset))

setType(s, type) == [s EXCEPT !.type = type]

\* PatcherError BootImage::error() const
error(s) == s.error

\* BootImage::Type BootImage::wasType() const
wasType(s) == s.sourceType

\* The constructor: the ten resets in the order of its body, then
\* hdrUnused = 0.
BootImage(src) ==
    LET s0 == Impl(src)
        s1 == resetKernelCmdline(s0)
        s2 == resetBoardName(s1)
        s3 == resetKernelAddress(s2)
        s4 == resetRamdiskAddress(s3)
        s5 == resetSecondBootloaderAddress(s4)
        s6 == resetKernelTagsAddress(s5)
        s7 == resetIplAddress(s6)
        s8 == resetRpmAddress(s7)
        s9 == resetAppsblAddress(s8)
        s10 == resetEntrypointAddress(s9)
        s11 == resetPageSize(s10)
    IN  [s11 EXCEPT !.i10e.hdrUnused = U32(0)]

\* ---------------------------------------------------------- payload setters
\* The vector overloads take the new contents; the C overloads take a buffer
\* and the number of bytes to copy from it (size <= Len(data)).

setKernelImage(s, data) ==
    [s EXCEPT !.i10e.hdrKernelSize = U32(Len(data)),
              !.i10e.kernelImage = data]
setKernelImageC(s, data, size) ==
    [s EXCEPT !.i10e.kernelImage = SubSeq(data, 1, size),
              !.i10e.hdrKernelSize = U32(size)]

setRamdiskImage(s, data) ==
    [s EXCEPT !.i10e.hdrRamdiskSize = U32(Len(data)),
              !.i10e.ramdiskImage = data]
setRamdiskImageC(s, data, size) ==
    [s EXCEPT !.i10e.ramdiskImage = SubSeq(data, 1, size),
              !.i10e.hdrRamdiskSize = U32(size)]

setSecondBootloaderImage(s, data) ==
    [s EXCEPT !.i10e.hdrSecondSize = U32(Len(data)),
              !.i10e.secondImage = data]
setSecondBootloaderImageC(s, data, size) ==
    [s EXCEPT !.i10e.secondImage = SubSeq(data, 1, size),
              !.i10e.hdrSecondSize = U32(size)]

setDeviceTreeImage(s, data) ==
    [s EXCEPT !.i10e.hdrDtSize = U32(Len(data)),
              !.i10e.dtImage = data]
\* Mutant of setDeviceTreeImageC: the blob is replaced, the size field is
\* left as it was.
setDeviceTreeImageCStaleSize(s, data, size) ==
    [s EXCEPT !.i10e.dtImage = SubSeq(data, 1, size)]

setDeviceTreeImageC(s, data, size) ==
    [s EXCEPT !.i10e.dtImage = SubSeq(data, 1, size),
              !.i10e.hdrDtSize = U32(size)]

setAbootImage(s, data) == [s EXCEPT !.i10e.abootImage = data]
setAbootImageC(s, data, size) ==
    [s EXCEPT !.i10e.abootImage = SubSeq(data, 1, size)]

setIplImage(s, data) == [s EXCEPT !.i10e.iplImage = data]
setIplImageC(s, data, size) ==
    [s EXCEPT !.i10e.iplImage = SubSeq(data, 1, size)]

setRpmImage(s, data) == [s EXCEPT !.i10e.rpmImage = data]
setRpmImageC(s, data, size) ==
    [s EXCEPT !.i10e.rpmImage = SubSeq(data, 1, size)]

setAppsblImage(s, data) == [s EXCEPT !.i10e.appsblImage = data]
setAppsblImageC(s, data, size) ==
    [s EXCEPT !.i10e.appsblImage = SubSeq(data, 1, size)]

setSinImage(s, data) == [s EXCEPT !.i10e.sonySinImage = data]
setSinImageC(s, data, size) ==
    [s EXCEPT !.i10e.sonySinImage = SubSeq(data, 1, size)]

setSinHeader(s, data) == [s EXCEPT !.i10e.sonySinHdr = data]
setSinHeaderC(s, data, size) ==
    [s EXCEPT !.i10e.sonySinHdr = SubSeq(data, 1, size)]

\* ------------------------------------------------------------------ codecs
\* The four format classes are not part of bootimage.cpp.  A byte string
\* handed to load is described by what they make of it:
\*   accepts   the formats whose isValid() accepts it,
\*   decodable the formats whose loadImage() succeeds on it,
\*   partial   whether a failing loadImage() has already stored the header
\*             fields when it fails,
\*   content   the field values the bytes carry.

PayloadFields ==
    { "kernelImage", "ramdiskImage", "secondImage", "dtImage", "abootImage",
      "iplImage", "rpmImage", "appsblImage", "sonySinImage", "sonySinHdr" }

AndroidHeaderFields ==
    { "hdrKernelSize", "kernelAddr", "hdrRamdiskSize", "ramdiskAddr",
      "hdrSecondSize", "secondAddr", "tagsAddr", "pageSize", "hdrDtSize",
      "hdrUnused", "boardName", "cmdline", "hdrId" }

\* The fields of the intermediate a format's container holds.
Carried(fmt) ==
    CASE fmt = Android ->
           AndroidHeaderFields \cup
           {"kernelImage", "ramdiskImage", "secondImage", "dtImage"}
      [] fmt = Bump ->
           AndroidHeaderFields \cup
           {"kernelImage", "ramdiskImage", "secondImage", "dtImage"}
      [] fmt = Loki ->
           AndroidHeaderFields \cup
           {"kernelImage", "ramdiskImage", "secondImage", "dtImage",
            "abootImage"}
      [] fmt = SonyElf ->
           { "kernelAddr", "ramdiskAddr", "iplAddr", "rpmAddr", "appsblAddr",
             "hdrEntrypoint", "kernelImage", "ramdiskImage", "iplImage",
             "rpmImage", "appsblImage", "sonySinImage", "sonySinHdr" }

\* <Format>::isValid(data, size)
isValid(fmt, data) == fmt \in data.accepts

\* <Format>(&i10e).loadImage(data, size): the result and the intermediate it
\* leaves.
loadImage(fmt, i10e, data) ==
    LET ok == fmt \in data.decodable
        written == IF ok THEN Carried(fmt)
                   ELSE IF data.partial THEN Carried(fmt) \ PayloadFields
                   ELSE {}
    IN  [ ret |-> ok,
          i10e |-> [f \in DOMAIN i10e |->
                      IF f \in written THEN data.content[f] ELSE i10e[f]] ]

\* The detectors that accept what a format's encoder writes: a Bump and a
\* Loki image are Android images with an addition.
Detected(fmt) ==
    CASE fmt = Android -> {Android}
      [] fmt = Bump -> {Bump, Android}
      [] fmt = Loki -> {Loki, Android}
      [] fmt = SonyElf -> {SonyElf}

\* A size word as the four bytes fed to the digest, low byte first.
le32(x) == << x[2] % 256, x[2] \div 256, x[1] % 256, x[1] \div 256 >>

\* The bytes the identity digest is computed over: each payload followed by
\* its size, the device tree only when its size is not zero.
Sha1Input(i10e) ==
    i10e.kernelImage \o le32(i10e.hdrKernelSize) \o
    i10e.ramdiskImage \o le32(i10e.hdrRamdiskSize) \o
    i10e.secondImage \o le32(i10e.hdrSecondSize) \o
    (IF i10e.hdrDtSize # U32(0)
     THEN i10e.dtImage \o le32(i10e.hdrDtSize) ELSE << >>)

RECURSIVE Sha1Mix(_, _)
Sha1Mix(h, bytes) ==
    IF bytes = << >> THEN h
    ELSE Sha1Mix((h * 31 + Head(bytes) + 1) % 65521, Tail(bytes))

\* A digest of five words standing for SHA-1: a function of every byte fed
\* and of their order.
Sha1(bytes) ==
    LET h == Sha1Mix(7, bytes)
    IN  [k \in 1..5 |-> Hex32((h * k) % Half, (h + k) % Half)]

\* The id an Android-family encoder writes: the digest in the first five
\* words, zero in the other three.
RebuiltId(i10e) ==
    [k \in 1..8 |-> IF k <= 5 THEN Sha1(Sha1Input(i10e))[k] ELSE U32(0)]

\* A header string as written: cut to leave room for the terminator.
Truncated(str, size) ==
    IF Len(str) > size - 1 THEN SubSeq(str, 1, size - 1) ELSE str

\* The field values an encoder writes into its container; a field the
\* container does not hold reads as its default.
Emitted(fmt, i10e) ==
    [f \in DOMAIN i10e |->
        IF f \notin Carried(fmt) THEN BootImageIntermediate[f]
        ELSE IF f = "boardName" THEN Truncated(i10e.boardName, BootNameSize)
        ELSE IF f = "cmdline" THEN Truncated(i10e.cmdline, BootArgsSize)
        ELSE IF f = "hdrId" THEN RebuiltId(i10e)
        ELSE i10e[f]]

\* The vector before any create() has filled it.
NoBytes ==
    [ accepts |-> {}, decodable |-> {}, partial |-> FALSE,
      content |-> BootImageIntermediate ]

\* <Format>(&i10e).createImage(&data): an encoder only reads the
\* intermediate; whether it succeeds is the codec's own matter (encOk).  On
\* success data holds an image of the format, which the format's detector
\* accepts and its decoder decodes.
createImage(fmt, i10e, encOk) ==
    [ ret |-> encOk,
      data |-> IF encOk
               THEN [ accepts |-> Detected(fmt), decodable |-> Detected(fmt),
                      partial |-> FALSE, content |-> Emitted(fmt, i10e) ]
               ELSE NoBytes ]

\* -------------------------------------------------------------------- load

\* Mutant of Probe: the Android detector is asked first.
ProbeAndroidFirst(data) ==
    IF isValid(Android, data) THEN
        [probed |-> <<Android>>, fmt |-> Android]
    ELSE IF isValid(Loki, data) THEN
        [probed |-> <<Android, Loki>>, fmt |-> Loki]
    ELSE IF isValid(Bump, data) THEN
        [probed |-> <<Android, Loki, Bump>>, fmt |-> Bump]
    ELSE IF isValid(SonyElf, data) THEN
        [probed |-> <<Android, Loki, Bump, SonyElf>>, fmt |-> SonyElf]
    ELSE
        [probed |-> <<Android, Loki, Bump, SonyElf>>, fmt |-> "None"]

\* The detector chain of load: the detectors probed, in order, and the
\* format committed to ("None" when every detector declined).
Probe(data) ==
    IF isValid(Loki, data) THEN
        [probed |-> <<Loki>>, fmt |-> Loki]
    ELSE IF isValid(Bump, data) THEN
        [probed |-> <<Loki, Bump>>, fmt |-> Bump]
    ELSE IF isValid(Android, data) THEN
        [probed |-> <<Loki, Bump, Android>>, fmt |-> Android]
    ELSE IF isValid(SonyElf, data) THEN
        [probed |-> <<Loki, Bump, Android, SonyElf>>, fmt |-> SonyElf]
    ELSE
        [probed |-> <<Loki, Bump, Android, SonyElf>>, fmt |-> "None"]

\* What an operation reports besides the new Impl: its return value and the
\* trace of what it ran.
NoTrace ==
    [ ret |-> TRUE, accepts |-> {}, decodable |-> {},
      probed |-> << >>, decoded |-> << >>, encoded |-> << >>, io |-> << >>,
      errSet |-> FALSE, fail |-> "none" ]

\* Mutant of load: a failing decoder is not reported; load returns false
\* only when no detector accepts.
loadIgnoringDecoder(s, data) ==
    LET p == Probe(data)
        committed == p.fmt # "None"
        s1 == IF committed THEN [s EXCEPT !.sourceType = p.fmt] ELSE s
        d == IF committed THEN loadImage(p.fmt, s1.i10e, data)
             ELSE [ret |-> FALSE, i10e |-> s1.i10e]
        s2 == [s1 EXCEPT !.i10e = d.i10e]
        t == [NoTrace EXCEPT !.accepts = data.accepts,
                             !.decodable = data.decodable,
                             !.probed = p.probed,
                             !.decoded = IF committed THEN <<p.fmt>>
                                         ELSE << >>]
    IN  IF ~committed
        THEN [ s |-> [s2 EXCEPT !.error = BootImageParseError],
               t |-> [t EXCEPT !.ret = FALSE, !.errSet = TRUE,
                               !.fail = "noformat"] ]
        ELSE [ s |-> s2, t |-> t ]

\* Mutant of load: a load that succeeds clears the error record.
loadClearingError(s, data) ==
    LET p == Probe(data)
        committed == p.fmt # "None"
        s1 == IF committed THEN [s EXCEPT !.sourceType = p.fmt] ELSE s
        d == IF committed THEN loadImage(p.fmt, s1.i10e, data)
             ELSE [ret |-> FALSE, i10e |-> s1.i10e]
        s2 == [s1 EXCEPT !.i10e = d.i10e]
        t == [NoTrace EXCEPT !.accepts = data.accepts,
                             !.decodable = data.decodable,
                             !.probed = p.probed,
                             !.decoded = IF committed THEN <<p.fmt>>
                                         ELSE << >>]
    IN  IF ~d.ret
        THEN [ s |-> [s2 EXCEPT !.error = BootImageParseError],
               t |-> [t EXCEPT !.ret = FALSE, !.errSet = TRUE,
                               !.fail = IF committed THEN "decode"
                                        ELSE "noformat"] ]
        ELSE [ s |-> [s2 EXCEPT !.error = NoError], t |-> t ]

\* Mutant of load: sourceType is assigned only once the decoder has
\* succeeded.
loadCommitsAfterDecode(s, data) ==
    LET p == Probe(data)
        committed == p.fmt # "None"
        d == IF committed THEN loadImage(p.fmt, s.i10e, data)
             ELSE [ret |-> FALSE, i10e |-> s.i10e]
        s2 == [s EXCEPT !.i10e = d.i10e]
        t == [NoTrace EXCEPT !.accepts = data.accepts,
                             !.decodable = data.decodable,
                             !.probed = p.probed,
                             !.decoded = IF committed THEN <<p.fmt>>
                                         ELSE << >>]
    IN  IF ~d.ret
        THEN [ s |-> [s2 EXCEPT !.error = BootImageParseError],
               t |-> [t EXCEPT !.ret = FALSE, !.errSet = TRUE,
                               !.fail = IF committed THEN "decode"
                                        ELSE "noformat"] ]
        ELSE [ s |-> [s2 EXCEPT !.sourceType = p.fmt], t |-> t ]

\* bool BootImage::load(const unsigned char *data, std::size_t size)
load(s, data) ==
    LET p == Probe(data)
        committed == p.fmt # "None"
        s1 == IF committed THEN [s EXCEPT !.sourceType = p.fmt] ELSE s
        d == IF committed THEN loadImage(p.fmt, s1.i10e, data)
             ELSE [ret |-> FALSE, i10e |-> s1.i10e]
        s2 == [s1 EXCEPT !.i10e = d.i10e]
        t == [NoTrace EXCEPT !.accepts = data.accepts,
                             !.decodable = data.decodable,
                             !.probed = p.probed,
                             !.decoded = IF committed THEN <<p.fmt>>
                                         ELSE << >>]
    IN  IF ~d.ret
        THEN [ s |-> [s2 EXCEPT !.error = BootImageParseError],
               t |-> [t EXCEPT !.ret = FALSE, !.errSet = TRUE,
                               !.fail = IF committed THEN "decode"
                                        ELSE "noformat"] ]
        ELSE [ s |-> s2, t |-> t ]

\* FileUtils::readToMemory(filename, &data): file is what the file system
\* holds under the name: either the I/O error the read ends with, or the
\* bytes read.
readToMemory(file) ==
    IF file.readError # NoError
    THEN [ret |-> file.readError, data |-> << >>]
    ELSE [ret |-> NoError, data |-> file.data]

\* Mutant of loadFile: a failed read is recorded but the function goes on
\* to load the empty buffer.
loadFileNoEarlyReturn(s, file) ==
    LET r == readToMemory(file)
    IN  IF r.ret # NoError
        THEN load([s EXCEPT !.error = r.ret], NoBytes)
        ELSE load(s, r.data)

\* bool BootImage::loadFile(const std::string &filename)
loadFile(s, file) ==
    LET r == readToMemory(file)
    IN  IF r.ret # NoError
        THEN [ s |-> [s EXCEPT !.error = r.ret],
               t |-> [NoTrace EXCEPT !.ret = FALSE, !.errSet = TRUE,
                                     !.fail = "read"] ]
        ELSE load(s, r.data)

\* ------------------------------------------------------------------ create

\* Mutant of create: every target type is written by the Android encoder.
createAlwaysAndroid(s, encOk) ==
    IF s.type \in Types
    THEN LET c == createImage(Android, s.i10e, encOk)
         IN  [ s |-> s,
               t |-> [NoTrace EXCEPT !.ret = c.ret,
                                     !.encoded = <<Android>>,
                                     !.fail = IF c.ret THEN "none"
                                              ELSE "encode"],
               data |-> c.data ]
    ELSE [ s |-> s,
           t |-> [NoTrace EXCEPT !.ret = FALSE, !.fail = "encode"],
           data |-> NoBytes ]

\* Mutant of create: the switch is on the source type.
createForSourceType(s, encOk) ==
    IF s.sourceType \in Types
    THEN LET c == createImage(s.sourceType, s.i10e, encOk)
         IN  [ s |-> s,
               t |-> [NoTrace EXCEPT !.ret = c.ret,
                                     !.encoded = <<s.sourceType>>,
                                     !.fail = IF c.ret THEN "none"
                                              ELSE "encode"],
               data |-> c.data ]
    ELSE [ s |-> s,
           t |-> [NoTrace EXCEPT !.ret = FALSE, !.fail = "encode"],
           data |-> NoBytes ]

\* bool BootImage::create(std::vector<unsigned char> *data) const
create(s, encOk) ==
    IF s.type \in Types
    THEN LET c == createImage(s.type, s.i10e, encOk)
         IN  [ s |-> s,
               t |-> [NoTrace EXCEPT !.ret = c.ret,
                                     !.encoded = <<s.type>>,
                                     !.fail = IF c.ret THEN "none"
                                              ELSE "encode"],
               data |-> c.data ]
    ELSE [ s |-> s,
           t |-> [NoTrace EXCEPT !.ret = FALSE, !.fail = "encode"],
           data |-> NoBytes ]

\* Mutant of createFile: the image is built before the file is opened.
createFileEncodesFirst(s, sink, encOk) ==
    LET c == create(s, encOk)
    IN  IF ~c.t.ret
        THEN [ s |-> c.s, t |-> [c.t EXCEPT !.io = <<"create">>] ]
        ELSE IF ~sink.openOk
        THEN [ s |-> [c.s EXCEPT !.error = FileOpenError],
               t |-> [c.t EXCEPT !.ret = FALSE, !.errSet = TRUE,
                                 !.io = <<"create", "open">>,
                                 !.fail = "open"] ]
        ELSE IF ~sink.writeOk
        THEN [ s |-> [c.s EXCEPT !.error = FileWriteError],
               t |-> [c.t EXCEPT !.ret = FALSE, !.errSet = TRUE,
                                 !.io = <<"create", "open", "write">>,
                                 !.fail = "write"] ]
        ELSE [ s |-> c.s,
               t |-> [c.t EXCEPT !.io = <<"create", "open", "write">>] ]

\* bool BootImage::createFile(const std::string &path): sink says whether
\* io::File::open and io::File::write succeed on the path; io lists the
\* steps taken, in order.
createFile(s, sink, encOk) ==
    IF ~sink.openOk
    THEN [ s |-> [s EXCEPT !.error = FileOpenError],
           t |-> [NoTrace EXCEPT !.ret = FALSE, !.errSet = TRUE,
                                 !.io = <<"open">>, !.fail = "open"] ]
    ELSE LET c == create(s, encOk)
         IN  IF ~c.t.ret
             THEN [ s |-> c.s,
                    t |-> [c.t EXCEPT !.io = <<"open", "create">>] ]
             ELSE IF ~sink.writeOk
             THEN [ s |-> [c.s EXCEPT !.error = FileWriteError],
                    t |-> [c.t EXCEPT !.ret = FALSE, !.errSet = TRUE,
                                      !.io = <<"open", "create", "write">>,
                                      !.fail = "write"] ]
             ELSE [ s |-> c.s,
                    t |-> [c.t EXCEPT !.io = <<"open", "create", "write">>] ]

\* ------------------------------------------------------------------ inputs

ByteVals == {1, 2}

\* Byte strings of at most n bytes.
BlobsUpTo(n) == UNION { [1..k -> ByteVals] : k \in 0..n }

Blobs == BlobsUpTo(MaxBlobLen)
Names == { << >>, <<106>> }
Addrs == { Hex32(0, 0), Hex32(32768, 4096) }
Offsets == { << Hex32(0, 32768), Hex32(256, 0), Hex32(240, 0), Hex32(0, 256) >> }

\* The page sizes the documentation of setPageSize lists.
AllowedPageSizes ==
    { U32(2048), U32(4096), U32(8192), U32(16384), U32(32768), U32(65536),
      U32(131072) }
PageSizeArgs == { U32(2048), U32(4096), U32(3000) }

\* The field values a boot image carries: u is its unused header word, v
\* fills everything else.
Content(u, v) ==
    [ boardName |-> <<v>>, cmdline |-> <<v, v>>,
      pageSize |-> U32(2048 * v),
      kernelAddr |-> Hex32(v, 32768), ramdiskAddr |-> Hex32(v, 0),
      secondAddr |-> Hex32(v, 240), tagsAddr |-> Hex32(v, 256),
      iplAddr |-> Hex32(v, 1), rpmAddr |-> Hex32(v, 2),
      appsblAddr |-> Hex32(v, 3), hdrEntrypoint |-> Hex32(v, 4),
      hdrUnused |-> U32(u),
      hdrKernelSize |-> U32(1), hdrRamdiskSize |-> U32(2),
      hdrSecondSize |-> U32(0), hdrDtSize |-> U32(0),
      hdrId |-> [k \in 1..8 |-> U32(v)],
      kernelImage |-> <<v>>, ramdiskImage |-> <<v, v>>,
      secondImage |-> << >>, dtImage |-> << >>, abootImage |-> <<v>>,
      iplImage |-> <<v>>, rpmImage |-> <<v>>, appsblImage |-> <<v>>,
      sonySinImage |-> <<v>>, sonySinHdr |-> <<v>> ]

Contents == { Content(u, 1) : u \in {0, 1} }

AcceptSets ==
    { {}, {Android}, {Bump, Android}, {Loki, Android}, {SonyElf},
      {Android, SonyElf} }

\* Byte strings handed to load: for each set of accepting detectors, one the
\* committed decoder decodes and one it fails on (having or not having
\* stored the header).
LoadInputs ==
    { x \in [ accepts : AcceptSets, decodable : SUBSET Types,
              partial : BOOLEAN, content : Contents ] :
        /\ \/ x.decodable = x.accepts
           \/ x.decodable = x.accepts \ {Probe(x).fmt}
        /\ x.partial => Probe(x).fmt \notin x.decodable /\ x.accepts # {} }

\* Files handed to loadFile: unreadable ones, and readable ones.
Files ==
    { [readError |-> e, data |-> << >>] : e \in {FileOpenError, FileReadError} }
    \cup
    { [readError |-> NoError, data |-> x] :
        x \in { y \in LoadInputs : y.content = Content(0, 1) } }

Sinks == [ openOk : BOOLEAN, writeOk : BOOLEAN ]

\* ----------------------------------------------------------------- actions

\* A void function's report.
Void(s) == [ s |-> s, t |-> NoTrace ]

\* One call of a public function on instance o: r is what the function
\* leaves and reports, h the instance's history after it, d the caller's
\* output vector after it.
Call(o, op, r, h, d) ==
    /\ obj' = [obj EXCEPT ![o] = r.s]
    /\ last' = [op |-> op, who |-> o] @@ r.t
    /\ hist' = [hist EXCEPT ![o] = h]
    /\ out' = d
    /\ nops' = nops + 1

\* A call that fills no output vector, while the behaviour has calls left.
Step(o, op, r, h) ==
    /\ nops < MaxOps
    /\ Call(o, op, r, h, out)

SetBoardName(o) ==
    \E name \in Names :
        Step(o, "set", Void(setBoardName(obj[o], name)), hist[o])

SetBoardNameC(o) ==
    \E name \in Names :
        Step(o, "set", Void(setBoardNameC(obj[o], name)), hist[o])

ResetBoardName(o) ==
    Step(o, "set", Void(resetBoardName(obj[o])), hist[o])

SetKernelCmdline(o) ==
    \E name \in Names :
        Step(o, "set", Void(setKernelCmdline(obj[o], name)), hist[o])

SetKernelCmdlineC(o) ==
    \E name \in Names :
        Step(o, "set", Void(setKernelCmdlineC(obj[o], name)), hist[o])

ResetKernelCmdline(o) ==
    Step(o, "set", Void(resetKernelCmdline(obj[o])), hist[o])

SetPageSize(o) ==
    \E size \in PageSizeArgs :
        Step(o, "set", Void(setPageSize(obj[o], size)),
             [hist[o] EXCEPT !.badPageArg = @ \/ size \notin AllowedPageSizes])

ResetPageSize(o) ==
    Step(o, "set", Void(resetPageSize(obj[o])), hist[o])

SetKernelAddress(o) ==
    \E address \in Addrs :
        Step(o, "set", Void(setKernelAddress(obj[o], address)), hist[o])

ResetKernelAddress(o) ==
    Step(o, "set", Void(resetKernelAddress(obj[o])), hist[o])

SetRamdiskAddress(o) ==
    \E address \in Addrs :
        Step(o, "set", Void(setRamdiskAddress(obj[o], address)), hist[o])

ResetRamdiskAddress(o) ==
    Step(o, "set", Void(resetRamdiskAddress(obj[o])), hist[o])

SetSecondBootloaderAddress(o) ==
    \E address \in Addrs :
        Step(o, "set", Void(setSecondBootloaderAddress(obj[o], address)), hist[o])

ResetSecondBootloaderAddress(o) ==
    Step(o, "set", Void(resetSecondBootloaderAddress(obj[o])), hist[o])

SetKernelTagsAddress(o) ==
    \E address \in Addrs :
        Step(o, "set", Void(setKernelTagsAddress(obj[o], address)), hist[o])

ResetKernelTagsAddress(o) ==
    Step(o, "set", Void(resetKernelTagsAddress(obj[o])), hist[o])

SetIplAddress(o) ==
    \E address \in Addrs :
        Step(o, "set", Void(setIplAddress(obj[o], address)), hist[o])

ResetIplAddress(o) ==
    Step(o, "set", Void(resetIplAddress(obj[o])), hist[o])

SetRpmAddress(o) ==
    \E address \in Addrs :
        Step(o, "set", Void(setRpmAddress(obj[o], address)), hist[o])

ResetRpmAddress(o) ==
    Step(o, "set", Void(resetRpmAddress(obj[o])), hist[o])

SetAppsblAddress(o) ==
    \E address \in Addrs :
        Step(o, "set", Void(setAppsblAddress(obj[o], address)), hist[o])

ResetAppsblAddress(o) ==
    Step(o, "set", Void(resetAppsblAddress(obj[o])), hist[o])

SetEntrypointAddress(o) ==
    \E address \in Addrs :
        Step(o, "set", Void(setEntrypointAddress(obj[o], address)), hist[o])

ResetEntrypointAddress(o) ==
    Step(o, "set", Void(resetEntrypointAddress(obj[o])), hist[o])

SetAddresses(o) ==
    \E base \in Addrs, off \in Offsets :
        Step(o, "set",
             Void(setAddresses(obj[o], base, off[1], off[2], off[3], off[4])),
             hist[o])

SetKernelImage(o) ==
    \E data \in Blobs :
        Step(o, "set", Void(setKernelImage(obj[o], data)), hist[o])

SetKernelImageC(o) ==
    \E data \in Blobs : \E size \in 0..Len(data) :
        Step(o, "set", Void(setKernelImageC(obj[o], data, size)), hist[o])

SetRamdiskImage(o) ==
    \E data \in Blobs :
        Step(o, "set", Void(setRamdiskImage(obj[o], data)), hist[o])

SetRamdiskImageC(o) ==
    \E data \in Blobs : \E size \in 0..Len(data) :
        Step(o, "set", Void(setRamdiskImageC(obj[o], data, size)), hist[o])

SetSecondBootloaderImage(o) ==
    \E data \in Blobs :
        Step(o, "set", Void(setSecondBootloaderImage(obj[o], data)), hist[o])

SetSecondBootloaderImageC(o) ==
    \E data \in Blobs : \E size \in 0..Len(data) :
        Step(o, "set", Void(setSecondBootloaderImageC(obj[o], data, size)), hist[o])

SetDeviceTreeImage(o) ==
    \E data \in Blobs :
        Step(o, "set", Void(setDeviceTreeImage(obj[o], data)), hist[o])

SetDeviceTreeImageC(o) ==
    \E data \in Blobs : \E size \in 0..Len(data) :
        Step(o, "set", Void(setDeviceTreeImageC(obj[o], data, size)), hist[o])

SetAbootImage(o) ==
    \E data \in Blobs :
        Step(o, "set", Void(setAbootImage(obj[o], data)), hist[o])

SetAbootImageC(o) ==
    \E data \in Blobs : \E size \in 0..Len(data) :
        Step(o, "set", Void(setAbootImageC(obj[o], data, size)), hist[o])

SetIplImage(o) ==
    \E data \in Blobs :
        Step(o, "set", Void(setIplImage(obj[o], data)), hist[o])

SetIplImageC(o) ==
    \E data \in Blobs : \E size \in 0..Len(data) :
        Step(o, "set", Void(setIplImageC(obj[o], data, size)), hist[o])

SetRpmImage(o) ==
    \E data \in Blobs :
        Step(o, "set", Void(setRpmImage(obj[o], data)), hist[o])

SetRpmImageC(o) ==
    \E data \in Blobs : \E size \in 0..Len(data) :
        Step(o, "set", Void(setRpmImageC(obj[o], data, size)), hist[o])

SetAppsblImage(o) ==
    \E data \in Blobs :
        Step(o, "set", Void(setAppsblImage(obj[o], data)), hist[o])

SetAppsblImageC(o) ==
    \E data \in Blobs : \E size \in 0..Len(data) :
        Step(o, "set", Void(setAppsblImageC(obj[o], data, size)), hist[o])

SetSinImage(o) ==
    \E data \in Blobs :
        Step(o, "set", Void(setSinImage(obj[o], data)), hist[o])

SetSinImageC(o) ==
    \E data \in Blobs : \E size \in 0..Len(data) :
        Step(o, "set", Void(setSinImageC(obj[o], data, size)), hist[o])

SetSinHeader(o) ==
    \E data \in Blobs :
        Step(o, "set", Void(setSinHeader(obj[o], data)), hist[o])

SetSinHeaderC(o) ==
    \E data \in Blobs : \E size \in 0..Len(data) :
        Step(o, "set", Void(setSinHeaderC(obj[o], data, size)), hist[o])

SetType(o) ==
    \E type \in TypeValues :
        Step(o, "setType", Void(setType(obj[o], type)), hist[o])

Load(o) ==
    \E data \in LoadInputs :
        LET r == load(obj[o], data)
        IN  Step(o, "load", r,
                 [hist[o] EXCEPT !.decoderRan = @ \/ r.t.decoded # << >>])

LoadVector(o) ==
    \E data \in LoadInputs :
        LET r == load(obj[o], data)
        IN  Step(o, "load", r,
                 [hist[o] EXCEPT !.decoderRan = @ \/ r.t.decoded # << >>])

LoadFile(o) ==
    \E file \in Files :
        LET r == loadFile(obj[o], file)
        IN  Step(o, "loadFile",
                 [ s |-> r.s, t |-> r.t @@ [readError |-> file.readError] ],
                 [hist[o] EXCEPT !.decoderRan = @ \/ r.t.decoded # << >>])

Create(o) ==
    \E encOk \in BOOLEAN :
        LET r == create(obj[o], encOk)
        IN  /\ nops < MaxOps
            /\ Call(o, "create", [s |-> r.s, t |-> r.t], hist[o],
                    IF r.t.ret THEN r.data ELSE out)

CreateFile(o) ==
    \E sink \in Sinks, encOk \in BOOLEAN :
        LET r == createFile(obj[o], sink, encOk)
        IN  Step(o, "createFile",
                 [ s |-> r.s, t |-> r.t @@ [sink |-> sink, encOk |-> encOk] ],
                 hist[o])

\* The value an uninitialized Type member may hold: an enumerator or not.
Indeterminate == {SonyElf, "Unknown"}

\* A constructed instance.
Constructed == { BootImage(src) : src \in Indeterminate }

InitHist == [decoderRan |-> FALSE, badPageArg |-> FALSE]

\* One instance, every public function.
Init ==
    /\ obj \in [{"a"} -> Constructed]
    /\ last = [op |-> "ctor", who |-> "a"] @@ NoTrace
    /\ hist = [o \in {"a"} |-> InitHist]
    /\ out = NoBytes
    /\ nops = 0

Next ==
    \E o \in {"a"} :
        \/ SetBoardName(o)
        \/ SetBoardNameC(o)
        \/ ResetBoardName(o)
        \/ SetKernelCmdline(o)
        \/ SetKernelCmdlineC(o)
        \/ ResetKernelCmdline(o)
        \/ SetPageSize(o)
        \/ ResetPageSize(o)
        \/ SetKernelAddress(o)
        \/ ResetKernelAddress(o)
        \/ SetRamdiskAddress(o)
        \/ ResetRamdiskAddress(o)
        \/ SetSecondBootloaderAddress(o)
        \/ ResetSecondBootloaderAddress(o)
        \/ SetKernelTagsAddress(o)
        \/ ResetKernelTagsAddress(o)
        \/ SetIplAddress(o)
        \/ ResetIplAddress(o)
        \/ SetRpmAddress(o)
        \/ ResetRpmAddress(o)
        \/ SetAppsblAddress(o)
        \/ ResetAppsblAddress(o)
        \/ SetEntrypointAddress(o)
        \/ ResetEntrypointAddress(o)
        \/ SetAddresses(o)
        \/ SetKernelImage(o)
        \/ SetKernelImageC(o)
        \/ SetRamdiskImage(o)
        \/ SetRamdiskImageC(o)
        \/ SetSecondBootloaderImage(o)
        \/ SetSecondBootloaderImageC(o)
        \/ SetDeviceTreeImage(o)
        \/ SetDeviceTreeImageC(o)
        \/ SetAbootImage(o)
        \/ SetAbootImageC(o)
        \/ SetIplImage(o)
        \/ SetIplImageC(o)
        \/ SetRpmImage(o)
        \/ SetRpmImageC(o)
        \/ SetAppsblImage(o)
        \/ SetAppsblImageC(o)
        \/ SetSinImage(o)
        \/ SetSinImageC(o)
        \/ SetSinHeader(o)
        \/ SetSinHeaderC(o)
        \/ SetType(o)
        \/ Load(o)
        \/ LoadVector(o)
        \/ LoadFile(o)
        \/ Create(o)
        \/ CreateFile(o)

Spec == Init /\ [][Next]_vars

\* ------------------------------------------------------------- operator==

\* operator==, the images: kernel to aboot, then the Sony images.
ImagesEqual(x, y) ==
    /\ x.i10e.kernelImage = y.i10e.kernelImage
    /\ x.i10e.ramdiskImage = y.i10e.ramdiskImage
    /\ x.i10e.secondImage = y.i10e.secondImage
    /\ x.i10e.dtImage = y.i10e.dtImage
    /\ x.i10e.abootImage = y.i10e.abootImage
    /\ x.i10e.iplImage = y.i10e.iplImage
    /\ x.i10e.rpmImage = y.i10e.rpmImage
    /\ x.i10e.appsblImage = y.i10e.appsblImage
    /\ x.i10e.sonySinImage = y.i10e.sonySinImage
    /\ x.i10e.sonySinHdr = y.i10e.sonySinHdr

\* Mutant of HeaderIntegralsEqual: the comparison of hdrUnused is not
\* commented out.
HeaderIntegralsEqualWithUnused(x, y) ==
    /\ x.i10e.hdrKernelSize = y.i10e.hdrKernelSize
    /\ x.i10e.kernelAddr = y.i10e.kernelAddr
    /\ x.i10e.hdrRamdiskSize = y.i10e.hdrRamdiskSize
    /\ x.i10e.ramdiskAddr = y.i10e.ramdiskAddr
    /\ x.i10e.hdrSecondSize = y.i10e.hdrSecondSize
    /\ x.i10e.secondAddr = y.i10e.secondAddr
    /\ x.i10e.tagsAddr = y.i10e.tagsAddr
    /\ x.i10e.pageSize = y.i10e.pageSize
    /\ x.i10e.hdrDtSize = y.i10e.hdrDtSize
    /\ x.i10e.hdrUnused = y.i10e.hdrUnused

\* operator==, the header's integral values.
HeaderIntegralsEqual(x, y) ==
    /\ x.i10e.hdrKernelSize = y.i10e.hdrKernelSize
    /\ x.i10e.kernelAddr = y.i10e.kernelAddr
    /\ x.i10e.hdrRamdiskSize = y.i10e.hdrRamdiskSize
    /\ x.i10e.ramdiskAddr = y.i10e.ramdiskAddr
    /\ x.i10e.hdrSecondSize = y.i10e.hdrSecondSize
    /\ x.i10e.secondAddr = y.i10e.secondAddr
    /\ x.i10e.tagsAddr = y.i10e.tagsAddr
    /\ x.i10e.pageSize = y.i10e.pageSize
    /\ x.i10e.hdrDtSize = y.i10e.hdrDtSize

\* operator==, the id words.
IdEqual(x, y) == \A k \in 1..8 : x.i10e.hdrId[k] = y.i10e.hdrId[k]

\* operator==, the header's string values.
StringsEqual(x, y) ==
    /\ x.i10e.boardName = y.i10e.boardName
    /\ x.i10e.cmdline = y.i10e.cmdline

\* bool BootImage::operator==(const BootImage &other) const
Equal(x, y) ==
    /\ ImagesEqual(x, y)
    /\ HeaderIntegralsEqual(x, y)
    /\ IdEqual(x, y)
    /\ StringsEqual(x, y)

\* bool BootImage::operator!=(const BootImage &other) const
NotEqual(x, y) == ~Equal(x, y)

\* Two instances, and the functions a comparison of two images exercises:
\* load, setType and a setter of each kind of field.
InitEq ==
    /\ obj \in [Inst -> Constructed]
    /\ last = [op |-> "ctor", who |-> "a"] @@ NoTrace
    /\ hist = [o \in Inst |-> InitHist]
    /\ out = NoBytes
    /\ nops = 0

NextEq ==
    \E o \in Inst :
        \/ Load(o)
        \/ SetType(o)
        \/ SetBoardName(o)
        \/ SetKernelCmdline(o)
        \/ SetPageSize(o)
        \/ SetKernelAddress(o)
        \/ SetRamdiskAddress(o)
        \/ SetSecondBootloaderAddress(o)
        \/ SetKernelTagsAddress(o)
        \/ SetIplAddress(o)
        \/ SetRpmAddress(o)
        \/ SetAppsblAddress(o)
        \/ SetEntrypointAddress(o)
        \/ SetKernelImage(o)
        \/ SetDeviceTreeImage(o)
        \/ SetAbootImage(o)
        \/ SetSinImage(o)

SpecEq == InitEq /\ [][NextEq]_vars

\* -------------------------------------------------------------------- text

\* Strings handed to the text setters: empty, short, with a NUL inside,
\* longer than the board name field, longer than the command line field.
LongTexts ==
    { << >>, <<106>>, <<106, 0, 107>>,
      [k \in 1..(BootNameSize + 4) |-> 97],
      [k \in 1..(BootArgsSize + 88) |-> 98] }

SetBoardNameLong(o) ==
    \E name \in LongTexts :
        Step(o, "set", Void(setBoardName(obj[o], name)),
             [hist[o] EXCEPT !.board = name])

SetBoardNameCLong(o) ==
    \E name \in LongTexts :
        Step(o, "set", Void(setBoardNameC(obj[o], name)),
             [hist[o] EXCEPT !.board = CStr(name)])

SetKernelCmdlineLong(o) ==
    \E cmdline \in LongTexts :
        Step(o, "set", Void(setKernelCmdline(obj[o], cmdline)),
             [hist[o] EXCEPT !.cmdline = cmdline])

SetKernelCmdlineCLong(o) ==
    \E cmdline \in LongTexts :
        Step(o, "set", Void(setKernelCmdlineC(obj[o], cmdline)),
             [hist[o] EXCEPT !.cmdline = CStr(cmdline)])

\* One instance whose history also holds the strings last stored: those of
\* the constructor's resets to begin with.
InitText ==
    /\ obj \in [{"a"} -> Constructed]
    /\ last = [op |-> "ctor", who |-> "a"] @@ NoTrace
    /\ hist = [o \in {"a"} |->
                 InitHist @@ [board |-> DefaultBoard,
                              cmdline |-> DefaultCmdline]]
    /\ out = NoBytes
    /\ nops = 0

\* The text setters among setType, create and createFile.
NextText ==
    \E o \in {"a"} :
        \/ SetBoardNameLong(o)
        \/ SetBoardNameCLong(o)
        \/ SetKernelCmdlineLong(o)
        \/ SetKernelCmdlineCLong(o)
        \/ SetType(o)
        \/ Create(o)
        \/ CreateFile(o)

SpecText == InitText /\ [][NextText]_vars

\* --------------------------------------------------------------- addresses

\* Bases and offsets over the whole 32-bit range, sums past 2^32 included.
WideBases ==
    { Hex32(0, 0), Hex32(4096, 0), Hex32(32768, 4096), Hex32(65535, 61440) }
WideOffsets == { Hex32(0, 32768), Hex32(256, 0), Hex32(65535, 65535) }

SetAddressesWide(o) ==
    \E base \in WideBases :
        \E kernelOffset \in WideOffsets, ramdiskOffset \in WideOffsets :
            \E secondBootloaderOffset \in WideOffsets :
                \E kernelTagsOffset \in WideOffsets :
                    Step(o, "setAddresses",
                         [ s |-> setAddresses(obj[o], base, kernelOffset,
                                     ramdiskOffset, secondBootloaderOffset,
                                     kernelTagsOffset),
                           t |-> NoTrace @@
                                 [ args |->
                                     [ base |-> base,
                                       kernelOffset |-> kernelOffset,
                                       ramdiskOffset |-> ramdiskOffset,
                                       secondBootloaderOffset |->
                                           secondBootloaderOffset,
                                       kernelTagsOffset |->
                                           kernelTagsOffset ] ] ],
                         hist[o])

\* One instance: setAddresses over wide arguments, among setters of fields
\* it writes and of fields it does not.
NextAddr ==
    \E o \in {"a"} :
        \/ SetAddressesWide(o)
        \/ SetKernelAddress(o)
        \/ SetIplAddress(o)
        \/ SetEntrypointAddress(o)
        \/ SetBoardName(o)
        \/ SetType(o)

SpecAddr == Init /\ [][NextAddr]_vars

\* -------------------------------------------------------------- round trip

\* The ids a valid image may carry: the one an encoder would write, that one
\* with a non-zero last word, and an unrelated one.
IdKinds == {"rebuilt", "upper", "other"}

ValidContent(u, kind) ==
    LET c == Content(u, 1)
    IN  [c EXCEPT !.hdrId =
            CASE kind = "rebuilt" -> RebuiltId(c)
              [] kind = "upper" -> [RebuiltId(c) EXCEPT ![8] = U32(1)]
              [] kind = "other" -> c.hdrId]

\* Valid boot images: bytes of one of the four containers, which the
\* container's detector accepts and its decoder decodes.
ValidImages ==
    { [ accepts |-> Detected(fmt), decodable |-> Detected(fmt),
        partial |-> FALSE, content |-> ValidContent(u, kind) ] :
        fmt \in Types, u \in {0, 1}, kind \in IdKinds }

\* A client that loads a valid image into a, makes the source type the
\* target type, creates, and loads what was created into b.
LoadValid ==
    /\ nops = 0
    /\ \E data \in ValidImages :
          LET r == load(obj["a"], data)
          IN  Call("a", "load", r,
                   [hist["a"] EXCEPT !.decoderRan = @ \/ r.t.decoded # << >>],
                   out)

SetTypeToSource ==
    /\ nops = 1
    /\ last.ret
    /\ Call("a", "setType", Void(setType(obj["a"], wasType(obj["a"]))),
            hist["a"], out)

CreateFromLoaded ==
    /\ nops = 2
    /\ \E encOk \in BOOLEAN :
          LET r == create(obj["a"], encOk)
          IN  Call("a", "create", [s |-> r.s, t |-> r.t], hist["a"],
                   IF r.t.ret THEN r.data ELSE out)

LoadCreated ==
    /\ nops = 3
    /\ last.ret
    /\ LET r == load(obj["b"], out)
       IN  Call("b", "load", r,
                [hist["b"] EXCEPT !.decoderRan = @ \/ r.t.decoded # << >>],
                out)

NextRT ==
    \/ LoadValid
    \/ SetTypeToSource
    \/ CreateFromLoaded
    \/ LoadCreated

SpecRT == InitEq /\ [][NextRT]_vars

\* ------------------------------------------------------------------ claims

DetectorOrder == << Loki, Bump, Android, SonyElf >>

\* The detectors of DetectorOrder, by position, that accept the bytes the
\* last load was given.
Acceptors == { k \in 1..4 : DetectorOrder[k] \in last.accepts }

FirstAcceptor == CHOOSE k \in Acceptors : \A j \in Acceptors : k <= j

\* The last operation was a load that got as far as probing detectors.
Probing == last.op \in {"load", "loadFile"} /\ last.fail # "read"

\* C1: load probes the detectors in the order Loki, Bump, Android, Sony-ELF
\* and commits to the first that accepts: the detectors probed are exactly
\* those up to the first acceptor, the one decoder run is the first
\* acceptor's, whether or not it succeeds, and when no detector accepts all
\* four are probed and no decoder is run.
C1_CommitsToFirstAcceptor ==
    Probing =>
        IF Acceptors = {}
        THEN last.probed = DetectorOrder /\ last.decoded = << >>
        ELSE /\ last.probed = SubSeq(DetectorOrder, 1, FirstAcceptor)
             /\ last.decoded = << DetectorOrder[FirstAcceptor] >>

\* A load of bytes that the Loki and the Android detector both accept, that
\* the Loki decoder fails on and the Android decoder would decode: only the
\* Loki decoder was run.
C1_Witness ==
    /\ last.op = "load"
    /\ last.accepts = {Loki, Android}
    /\ last.decodable = {Android}
    /\ last.decoded = << Loki >>
    /\ ~last.ret

\* C2: load returns false exactly when no detector accepts the input or the
\* decoder of the first acceptor fails, and then the error record holds
\* BootImageParseError.
C2_LoadFailsIffNoFormatOrDecodeFails ==
    last.op = "load" =>
        /\ ~last.ret <=>
             \/ Acceptors = {}
             \/ DetectorOrder[FirstAcceptor] \notin last.decodable
        /\ ~last.ret => obj[last.who].error = BootImageParseError

\* A load whose detector accepted and whose decoder failed.
C2_Witness ==
    /\ last.op = "load"
    /\ ~last.ret
    /\ last.decoded # << >>
    /\ obj[last.who].error = BootImageParseError

\* C3: on an instance that has only been through setters, resets and
\* setType, each of the four size fields equals the length of its payload.
C3_SizeFieldsMatchPayloads ==
    \A o \in DOMAIN obj :
        ~hist[o].decoderRan =>
            /\ Val(obj[o].i10e.hdrKernelSize) = Len(obj[o].i10e.kernelImage)
            /\ Val(obj[o].i10e.hdrRamdiskSize) = Len(obj[o].i10e.ramdiskImage)
            /\ Val(obj[o].i10e.hdrSecondSize) = Len(obj[o].i10e.secondImage)
            /\ Val(obj[o].i10e.hdrDtSize) = Len(obj[o].i10e.dtImage)

\* Two payload setters have stored non-empty blobs.
C3_Witness ==
    /\ ~hist["a"].decoderRan
    /\ Len(obj["a"].i10e.kernelImage) > 0
    /\ Len(obj["a"].i10e.dtImage) > 0

\* The fields C4 lists: every payload, every size field, the eight address
\* fields, the page size, the id, the board name and the command line.
ListedFields == DOMAIN BootImageIntermediate \ {"hdrUnused"}

AgreeOnListed(x, y) == \A f \in ListedFields : x.i10e[f] = y.i10e[f]

\* C4: a == b holds if and only if a and b agree on every listed field.
C4_EqualIffListedFieldsAgree ==
    Equal(obj["a"], obj["b"]) <=> AgreeOnListed(obj["a"], obj["b"])

\* C5: two instances that differ at most in sourceType, type and hdrUnused
\* compare equal under == and not unequal under !=.
C5_EqualityIgnoresTypesAndUnused ==
    AgreeOnListed(obj["a"], obj["b"]) =>
        /\ Equal(obj["a"], obj["b"])
        /\ ~NotEqual(obj["a"], obj["b"])

\* The same content loaded from two containers, with different unused
\* words: the instances differ in sourceType and hdrUnused and compare
\* equal.
C5_Witness ==
    /\ obj["a"].sourceType # obj["b"].sourceType
    /\ obj["a"].i10e.hdrUnused # obj["b"].i10e.hdrUnused
    /\ hist["a"].decoderRan /\ hist["b"].decoderRan
    /\ Equal(obj["a"], obj["b"])

C7_ConstructorDefaults ==
    nops = 0 =>
        \A o \in DOMAIN obj :
            /\ obj[o].i10e.boardName = << >>
            /\ obj[o].i10e.cmdline = << >>
            /\ obj[o].i10e.pageSize = U32(2048)
            /\ obj[o].i10e.kernelAddr = Hex32(4096, 32768)
            /\ obj[o].i10e.ramdiskAddr = Hex32(4352, 0)
            /\ obj[o].i10e.secondAddr = Hex32(4336, 0)
            /\ obj[o].i10e.tagsAddr = Hex32(4096, 256)
            /\ obj[o].i10e.iplAddr = U32(0)
            /\ obj[o].i10e.rpmAddr = U32(0)
            /\ obj[o].i10e.appsblAddr = U32(0)
            /\ obj[o].i10e.hdrEntrypoint = U32(0)
            /\ obj[o].i10e.hdrUnused = U32(0)
            /\ \A f \in PayloadFields : obj[o].i10e[f] = << >>
            /\ obj[o].i10e.hdrKernelSize = U32(0)
            /\ obj[o].i10e.hdrRamdiskSize = U32(0)
            /\ obj[o].i10e.hdrSecondSize = U32(0)
            /\ obj[o].i10e.hdrDtSize = U32(0)
            /\ \A k \in 1..8 : obj[o].i10e.hdrId[k] = U32(0)
            /\ obj[o].type = Android

\* The instance as the constructor leaves it.
C7_Witness ==
    /\ nops = 0
    /\ last.op = "ctor"
    /\ obj["a"].i10e.secondAddr = Hex32(4336, 0)
    /\ obj["a"].type = Android

\* C8 as stated: a load or loadFile that returns false leaves sourceType as
\* it was.
C8_FailedLoadKeepsSourceType ==
    [][ (last'.op \in {"load", "loadFile"} /\ ~last'.ret) =>
            obj'[last'.who].sourceType = obj[last'.who].sourceType ]_vars

\* C8 as amended: sourceType changes only in a load or loadFile whose
\* detector chain accepts the input, and then it becomes the format of the
\* first acceptor whether or not the decoder succeeds; every other call, a
\* load that no detector accepts and a loadFile that cannot read included,
\* leaves it as it was.
C8_SourceTypeFollowsCommittedDetector ==
    [][ IF last'.op \in {"load", "loadFile"} /\ last'.decoded # << >>
        THEN wasType(obj'[last'.who]) = last'.decoded[1]
        ELSE wasType(obj'[last'.who]) = wasType(obj[last'.who]) ]_vars

\* A load has failed in the Loki decoder and the source type is Loki.
C8_Witness ==
    /\ last.op = "load"
    /\ ~last.ret
    /\ last.fail = "decode"
    /\ last.decoded = << Loki >>
    /\ wasType(obj[last.who]) = Loki

FailureCodes ==
    { BootImageParseError, FileReadError, FileOpenError, FileWriteError }

\* C9: whenever load, loadFile or createFile returns false, the call has
\* stored the code of its failure in the error record.
C9_FailureStoresItsCode ==
    (last.op \in {"load", "loadFile", "createFile"} /\ ~last.ret) =>
        /\ last.errSet
        /\ obj[last.who].error \in FailureCodes
        /\ last.fail \in {"noformat", "decode"} =>
               obj[last.who].error = BootImageParseError
        /\ last.fail = "read" =>
               obj[last.who].error \in {FileReadError, FileOpenError}
        /\ last.fail = "open" => obj[last.who].error = FileOpenError
        /\ last.fail = "write" => obj[last.who].error = FileWriteError

\* C10 as stated: after any sequence of public mutations the page size is
\* in the allowed set.
C10_PageSizeAlwaysAllowed ==
    \A o \in DOMAIN obj : obj[o].i10e.pageSize \in AllowedPageSizes

\* C10 as amended: on an instance that no decoder has written to, the page
\* size is in the allowed set as long as every argument of setPageSize was.
C10_PageSizeAllowedIfArgumentsWere ==
    \A o \in DOMAIN obj :
        (~hist[o].badPageArg /\ ~hist[o].decoderRan) =>
            obj[o].i10e.pageSize \in AllowedPageSizes

\* setPageSize has stored an allowed size other than the default.
C10_Witness ==
    /\ ~hist["a"].badPageArg
    /\ ~hist["a"].decoderRan
    /\ obj["a"].i10e.pageSize = U32(4096)

\* uint32_t subtraction, modulo 2^32: the x with Add32(x, y) = z.
Sub32(z, y) ==
    LET lo == z[2] - y[2]
        borrow == IF lo < 0 THEN 1 ELSE 0
    IN  << (z[1] - y[1] - borrow + Half) % Half, (lo + Half) % Half >>

\* C11: setAddresses returns normally for every base and offsets, leaves
\* each of the four addresses equal to base plus its offset modulo 2^32,
\* and changes nothing else of the instance.
C11_SetAddressesWraps ==
    [][ last'.op = "setAddresses" =>
          LET o == last'.who
              a == last'.args
              n == obj'[o].i10e
          IN  /\ last'.ret
              /\ Sub32(n.kernelAddr, a.kernelOffset) = a.base
              /\ Sub32(n.ramdiskAddr, a.ramdiskOffset) = a.base
              /\ Sub32(n.secondAddr, a.secondBootloaderOffset) = a.base
              /\ Sub32(n.tagsAddr, a.kernelTagsOffset) = a.base
              /\ obj' = [obj EXCEPT ![o].i10e.kernelAddr = n.kernelAddr,
                                    ![o].i10e.ramdiskAddr = n.ramdiskAddr,
                                    ![o].i10e.secondAddr = n.secondAddr,
                                    ![o].i10e.tagsAddr = n.tagsAddr]
              /\ out' = out ]_vars

\* setAddresses was given base 0xFFFFF000 with kernel offset 0x8000 and tags
\* offset 0xFFFFFFFF: both sums pass 2^32 and the addresses hold 0x00007000
\* and 0xFFFFEFFF.
C11_Witness ==
    /\ last.op = "setAddresses"
    /\ last.args.base = Hex32(65535, 61440)
    /\ last.args.kernelOffset = Hex32(0, 32768)
    /\ last.args.kernelTagsOffset = Hex32(65535, 65535)
    /\ obj["a"].i10e.kernelAddr = Hex32(0, 28672)
    /\ obj["a"].i10e.tagsAddr = Hex32(65535, 61439)

\* C12: the text getters return exactly the string last stored, whatever
\* its length, also after create and createFile; the C getters return it up
\* to its first NUL.
C12_TextGettersReturnWhatWasSet ==
    \A o \in DOMAIN obj :
        /\ boardName(obj[o]) = hist[o].board
        /\ kernelCmdline(obj[o]) = hist[o].cmdline
        /\ boardNameC(obj[o]) = CStr(hist[o].board)
        /\ kernelCmdlineC(obj[o]) = CStr(hist[o].cmdline)

\* A board name of 20 bytes was set and create() has written an image: the
\* image holds 15 bytes of it, the getter returns all 20.
C12_Witness ==
    /\ last.op = "create"
    /\ last.ret
    /\ last.encoded = << Android >>
    /\ Len(hist["a"].board) = BootNameSize + 4
    /\ Len(out.content.boardName) = BootNameSize - 1
    /\ boardName(obj["a"]) = hist["a"].board

\* C13: the target type is Android after construction and changes only in
\* setType; create, and createFile once it has opened its file, run the
\* encoder of the target type (none when it is no enumerator), whatever
\* the source type.
C13_CreateEmitsTargetType ==
    /\ \A o \in DOMAIN obj : obj[o].type = Android
    /\ [][ LET o == last'.who
               encodes == \/ last'.op = "create"
                          \/ last'.op = "createFile" /\ Len(last'.io) >= 2
           IN  /\ last'.op # "setType" => obj'[o].type = obj[o].type
               /\ encodes =>
                     last'.encoded = IF obj[o].type \in Types
                                     THEN << obj[o].type >> ELSE << >> ]_vars

\* A Bump image was loaded and create() called without setType: the Android
\* encoder ran.
C13_Witness ==
    /\ last.op = "create"
    /\ last.ret
    /\ hist["a"].decoderRan
    /\ wasType(obj["a"]) = Bump
    /\ obj["a"].type = Android
    /\ last.encoded = << Android >>

\* C14: createFile opens the file, then builds the image, then writes: when
\* the open fails no encoder is run and nothing is written; when building
\* fails nothing is written though the file was opened; the write happens
\* after both succeeded; and the result is true exactly when all three
\* succeeded.
C14_CreateFileOpensEncodesWrites ==
    last.op = "createFile" =>
        LET built == obj[last.who].type \in Types /\ last.encOk
        IN  /\ last.io = IF ~last.sink.openOk THEN << "open" >>
                         ELSE IF ~built THEN << "open", "create" >>
                         ELSE << "open", "create", "write" >>
            /\ ~last.sink.openOk => last.encoded = << >>
            /\ last.ret <=> (last.sink.openOk /\ built /\ last.sink.writeOk)

\* createFile opened its file, the encoder failed, and nothing was written.
C14_Witness ==
    /\ last.op = "createFile"
    /\ last.sink.openOk
    /\ last.sink.writeOk
    /\ ~last.encOk
    /\ last.encoded = << Android >>
    /\ last.io = << "open", "create" >>
    /\ ~last.ret

\* C15: a call that returns normally or true leaves error() as it was;
\* error() changes only in a call that returns false.
C15_ErrorChangesOnlyOnFailure ==
    [][ /\ last'.ret => error(obj'[last'.who]) = error(obj[last'.who])
        /\ \A o \in DOMAIN obj :
              error(obj'[o]) # error(obj[o]) => (o = last'.who /\ ~last'.ret)
      ]_vars

\* A load failed and a later load succeeded: error() still reports the
\* failure.
C15_Witness ==
    /\ last.op = "load"
    /\ last.ret
    /\ nops = 2
    /\ error(obj[last.who]) = BootImageParseError

\* C16: a loadFile whose file cannot be read probes no detector and stores
\* the read's error; a load of bytes no detector accepts stores
\* BootImageParseError; both return false, run no decoder and change
\* nothing else: the intermediate, the source type and the target type are
\* as before.
C16_EarlyLoadFailureKeepsState ==
    [][ LET o == last'.who
            unread == last'.op = "loadFile" /\ last'.readError # NoError
            declined == /\ last'.op \in {"load", "loadFile"}
                        /\ ~unread
                        /\ last'.accepts = {}
        IN  (unread \/ declined) =>
              /\ ~last'.ret
              /\ last'.decoded = << >>
              /\ unread => last'.probed = << >>
              /\ obj' = [obj EXCEPT ![o].error =
                            IF unread THEN last'.readError
                            ELSE BootImageParseError]
              /\ out' = out ]_vars

\* An image was loaded, then a loadFile could not read its file: the loaded
\* contents and source type are still there and error() is the read error.
C16_Witness ==
    /\ last.op = "loadFile"
    /\ last.readError = FileReadError
    /\ ~last.ret
    /\ last.probed = << >>
    /\ hist["a"].decoderRan
    /\ wasType(obj["a"]) = Loki
    /\ Len(obj["a"].i10e.kernelImage) > 0
    /\ error(obj["a"]) = FileReadError

====
